---- MODULE Spec2Model ----
(***************************************************************************)
(* icelang-ls: the semantic analyzer (src/src/analyzer.rs), its symbol     *)
(* table (src/src/declarations.rs) and the node classifier                 *)
(* (src/src/ast.rs), modelled as a state machine that walks a syntax tree  *)
(* node by node, resolves the collected identifiers and reports the        *)
(* unused declarations.                                                    *)
(*                                                                         *)
(* The syntax tree is the input.  It is kept as the sequence of its nodes  *)
(* in document (pre-)order; every node carries its parent's index, so that *)
(* parent(), children(), named_child(), next_named_sibling() and           *)
(* child_by_field_name() are computed from it as tree-sitter does.         *)
(*                                                                         *)
(* The language server (src/src/backend.rs, src/src/document.rs) is a      *)
(* second state machine of the module: the handlers of did_open,           *)
(* did_change and completion as tasks over the shared document map.        *)
(***************************************************************************)
EXTENDS Integers, Sequences, FiniteSets, TLC

(***************************************************************************)
(* Bounds of the model.                                                    *)
(***************************************************************************)
\* the number of statements of a generated document
MaxItems == 3

\* the identifiers a generated document declares and refers to
Names == {"x", "y"}

\* the number of events the client sends to the server
MaxEvents == 3

\* the number of threads that run the handlers
Workers == 1

\* the number of shards of the document map
NumShards == 2

\* the documents and the texts of the events
Uris == {"a.ice", "b.ice"}

Texts == {"t1", "t2"}

(***************************************************************************)
(* Positions and ranges (tower_lsp::lsp_types::Position / Range).          *)
(* Position derives PartialOrd: line first, then character.                *)
(***************************************************************************)
Pos(l, c) == [line |-> l, character |-> c]

Rng(s, e) == [start |-> s, end |-> e]

PosLt(a, b) ==
    \/ a.line < b.line
    \/ a.line = b.line /\ a.character < b.character

PosGt(a, b) == PosLt(b, a)

\* Option<T>: None is the empty sequence, Some(v) the one-element sequence
None == <<>>

Some(v) == <<v>>

\* utils::NIL_RANGE, the range of builtins and of the synthetic `self`
NIL_RANGE == Rng(Pos(0, 0), Pos(0, 0))

(***************************************************************************)
(* builtins.rs                                                             *)
(***************************************************************************)
KEYWORDS ==
    {"null", "true", "false", "set", "function", "lambda", "for", "in", "to",
     "while", "loop", "if", "else", "match"}

BUILTIN_FUNCTION ==
    <<"print", "readline", "import", "export", "type_of", "length",
      "parse_number", "sqrt", "floor", "round", "ceil", "pow">>

BuiltinNames == {BUILTIN_FUNCTION[i] : i \in 1..Len(BUILTIN_FUNCTION)}

(***************************************************************************)
(* ast.rs: the node classifier.  "stmt_expression" is classified as        *)
(* StmtReturn, as the source has it (ast.rs line 50).                      *)
(***************************************************************************)
NodeTypeFrom(kind) ==
    CASE kind = "stmt_block" -> "StmtBlock"
      [] kind = "stmt_var_decl" -> "StmtVarDecl"
      [] kind = "stmt_func_decl" -> "StmtFuncDecl"
      [] kind = "stmt_loop" -> "StmtLoop"
      [] kind = "stmt_while" -> "StmtWhile"
      [] kind = "stmt_for" -> "StmtFor"
      [] kind = "stmt_continue" -> "StmtContinue"
      [] kind = "stmt_break" -> "StmtBreak"
      [] kind = "stmt_return" -> "StmtReturn"
      [] kind = "stmt_expression" -> "StmtReturn"
      [] kind = "expr_literal" -> "ExprLiteral"
      [] kind = "expr_group" -> "ExprGroup"
      [] kind = "expr_identifier" -> "ExprIdentifier"
      [] kind = "expr_array" -> "ExprArray"
      [] kind = "expr_object" -> "ExprObject"
      [] kind = "expr_unary" -> "ExprUnary"
      [] kind = "expr_binary" -> "ExprBinary"
      [] kind = "expr_index" -> "ExprIndex"
      [] kind = "expr_field" -> "ExprField"
      [] kind = "expr_if" -> "ExprIf"
      [] kind = "expr_match" -> "ExprMatch"
      [] kind = "expr_call" -> "ExprCall"
      [] kind = "expr_lambda" -> "ExprLambda"
      [] kind = "args" -> "Args"
      [] kind = "prop" -> "Prop"
      [] kind = "iterator" -> "Iterator"
      [] kind = "ERROR" -> "Error"
      [] OTHER -> "Unnamed"

LOOP_NODE == {"StmtFor", "StmtWhile", "StmtLoop"}

FUNCTION_NODE == {"StmtFuncDecl", "ExprLambda"}

(***************************************************************************)
(* The documents.  A document is a sequence of at most MaxItems items, one *)
(* per line; an item is a statement or the opening line of a statement     *)
(* with a block.  An item says how many of the open blocks are closed      *)
(* before it (`pop`), each by a line of its own; the blocks still open at  *)
(* the end of the document are closed on the following lines.              *)
(*                                                                         *)
(*   var      set a = b;        b a number literal or an identifier        *)
(*   varmiss  set a = ;         the value is a MISSING expr_identifier     *)
(*   varnone  set a;            the node has no `value` field              *)
(*   func     function a(b) {                                              *)
(*   lam      set a = lambda(b) {                                          *)
(*   block    {                                                            *)
(*   loop     loop {                                                       *)
(*   for      for a in b {                                                 *)
(*   expr     a;                                                           *)
(*   break    break;       continue  continue;       return  return;       *)
(*   error    @a           an ERROR node holding the identifier a          *)
(* A closing line is } (or }; for the block of a lambda).                  *)
(***************************************************************************)
Item(op, a, b) == [op |-> op, a |-> a, b |-> b, pop |-> 0]

\* the item, after closing k blocks
After(k, it) == [it EXCEPT !.pop = k]

Items ==
    {Item("var", n, v) : n \in Names, v \in {"1", "x"}}
    \cup {Item("varmiss", "x", ""), Item("varnone", "x", "")}
    \cup {Item("func", n, "x") : n \in Names}
    \cup {Item("lam", "x", "y")}
    \cup {Item("block", "", ""), Item("loop", "", ""), Item("for", "x", "y")}
    \cup {Item("expr", n, "") : n \in Names \cup {"print"}}
    \cup {Item("break", "", ""), Item("continue", "", ""), Item("return", "", "")}
    \cup {Item("error", "x", "")}

Openers == {"func", "lam", "block", "loop", "for"}

\* the documents of at most n items, each with the number of its open blocks
RECURSIVE ProgramsUpTo(_)
ProgramsUpTo(n) ==
    IF n = 0 THEN {[items |-> <<>>, depth |-> 0]}
    ELSE LET shorter == ProgramsUpTo(n - 1) IN
         shorter
         \cup {[items |-> Append(q.items, After(k, it)),
                depth |-> q.depth - k + (IF it.op \in Openers THEN 1 ELSE 0)] :
                  <<q, it, k>> \in
                     {t \in {r \in shorter : Len(r.items) = n - 1}
                             \X Items \X (0..(n - 1)) : t[3] <= t[1].depth}}

Programs == {q.items : q \in ProgramsUpTo(MaxItems)}

(***************************************************************************)
(* The parser's tree of a document (tree_sitter::Parser::parse).  A node:  *)
(* its raw kind, its parent's index (0 for the root), is_named(), the      *)
(* field name it has in its parent, its text, start and end position,      *)
(* is_error() and is_missing().  Of the anonymous tokens only the braces   *)
(* of a block are kept: an anonymous token that is not missing changes     *)
(* nothing when it is visited.  The text of a node of several lines is     *)
(* cut to its first line.                                                  *)
(***************************************************************************)
Node(kind, parent, named, field, text, l, c1, c2) ==
    [kind |-> kind, parent |-> parent, named |-> named, field |-> field,
     text |-> text, start |-> Pos(l, c1), end |-> Pos(l, c2),
     error |-> FALSE, missing |-> FALSE]

Ident(parent, field, text, l, c) ==
    Node("expr_identifier", parent, TRUE, field, text, l, c, c + Len(text))

\* the nodes of the item `it` on line l, under the node `par`, the first of
\* them getting the index base + 1
ItemNodes(it, par, base, l) ==
    LET s == base + 1
        a == it.a
        b == it.b
        la == Len(a)
        lb == Len(b)
    IN
    CASE it.op = "var" ->
           LET text == "set " \o a \o " = " \o b \o ";" IN
           <<Node("stmt_var_decl", par, TRUE, "", text, l, 0, Len(text)),
             Ident(s, "name", a, l, 4)>>
           \o (IF b \in Names
               THEN <<Ident(s, "value", b, l, 7 + la)>>
               ELSE <<Node("expr_literal", s, TRUE, "value", b, l, 7 + la, 7 + la + lb),
                      Node("number", s + 2, TRUE, "", b, l, 7 + la, 7 + la + lb)>>)
      [] it.op = "varmiss" ->
           LET text == "set " \o a \o " = ;" IN
           <<Node("stmt_var_decl", par, TRUE, "", text, l, 0, Len(text)),
             Ident(s, "name", a, l, 4),
             [Ident(s, "value", "", l, 7 + la) EXCEPT !.missing = TRUE]>>
      [] it.op = "varnone" ->
           LET text == "set " \o a \o ";" IN
           <<Node("stmt_var_decl", par, TRUE, "", text, l, 0, Len(text)),
             Ident(s, "name", a, l, 4)>>
      [] it.op = "func" ->
           LET text == "function " \o a \o "(" \o b \o ") {"
               bc == 12 + la + lb
           IN
           <<Node("stmt_func_decl", par, TRUE, "", text, l, 0, bc + 1),
             Ident(s, "name", a, l, 9),
             Node("args", s, TRUE, "args", "(" \o b \o ")", l, 9 + la, 11 + la + lb),
             Ident(s + 2, "", b, l, 10 + la),
             Node("stmt_block", s, TRUE, "body", "{", l, bc, bc + 1),
             Node("{", s + 4, FALSE, "", "{", l, bc, bc + 1)>>
      [] it.op = "lam" ->
           LET text == "set " \o a \o " = lambda(" \o b \o ") {"
               vc == 7 + la
               bc == vc + 9 + lb
           IN
           <<Node("stmt_var_decl", par, TRUE, "", text, l, 0, bc + 1),
             Ident(s, "name", a, l, 4),
             Node("expr_lambda", s, TRUE, "value", "lambda(" \o b \o ") {", l, vc, bc + 1),
             Node("args", s + 2, TRUE, "args", "(" \o b \o ")", l, vc + 6, vc + 8 + lb),
             Ident(s + 3, "", b, l, vc + 7),
             Node("stmt_block", s + 2, TRUE, "body", "{", l, bc, bc + 1),
             Node("{", s + 5, FALSE, "", "{", l, bc, bc + 1)>>
      [] it.op = "block" ->
           <<Node("stmt_block", par, TRUE, "", "{", l, 0, 1),
             Node("{", s, FALSE, "", "{", l, 0, 1)>>
      [] it.op = "loop" ->
           <<Node("stmt_loop", par, TRUE, "", "loop {", l, 0, 6),
             Node("stmt_block", s, TRUE, "body", "{", l, 5, 6),
             Node("{", s + 1, FALSE, "", "{", l, 5, 6)>>
      [] it.op = "for" ->
           LET text == "for " \o a \o " in " \o b \o " {"
               bc == 9 + la + lb
           IN
           <<Node("stmt_for", par, TRUE, "", text, l, 0, bc + 1),
             Node("iterator", s, TRUE, "iterator", a, l, 4, 4 + la),
             Ident(s + 1, "", a, l, 4),
             Ident(s, "iterable", b, l, 8 + la),
             Node("stmt_block", s, TRUE, "body", "{", l, bc, bc + 1),
             Node("{", s + 4, FALSE, "", "{", l, bc, bc + 1)>>
      [] it.op = "expr" ->
           <<Node("stmt_expression", par, TRUE, "", a \o ";", l, 0, la + 1),
             Ident(s, "", a, l, 0)>>
      [] it.op = "break" ->
           <<Node("stmt_break", par, TRUE, "", "break;", l, 0, 6)>>
      [] it.op = "continue" ->
           <<Node("stmt_continue", par, TRUE, "", "continue;", l, 0, 9)>>
      [] it.op = "return" ->
           <<Node("stmt_return", par, TRUE, "", "return;", l, 0, 7)>>
      [] it.op = "error" ->
           <<[Node("ERROR", par, TRUE, "", "@" \o a, l, 0, 1 + la) EXCEPT !.error = TRUE],
             Ident(s, "", a, l, 1)>>

\* the index (within its item's nodes) of the block an opening item opens
BlockOffset(op) ==
    CASE op = "func" -> 5
      [] op = "lam" -> 6
      [] op = "block" -> 1
      [] op = "loop" -> 2
      [] op = "for" -> 5

\* the nodes with the block b closed by a line l: the closing brace is the
\* block's last child, and the block, the statement it is the body of and a
\* lambda's declaration (closed by "};") end on that line
CloseBlock(nodes, b, l) ==
    LET o == nodes[b].parent
        isBody == nodes[b].field = "body"
        isLam == isBody /\ nodes[o].kind = "expr_lambda"
        v == IF isLam THEN nodes[o].parent ELSE 0
    IN
    [i \in 1..(Len(nodes) + 1) |->
        IF i = Len(nodes) + 1 THEN Node("}", b, FALSE, "", "}", l, 0, 1)
        ELSE IF i = b \/ (isBody /\ i = o) THEN [nodes[i] EXCEPT !.end = Pos(l, 1)]
        ELSE IF i = v THEN [nodes[i] EXCEPT !.end = Pos(l, 2)]
        ELSE nodes[i]]

\* the end of the root: the end of its last child
RootEnd(nodes) ==
    LET top == {i \in 1..Len(nodes) : nodes[i].parent = 1} IN
    IF top = {} THEN Pos(0, 0)
    ELSE nodes[CHOOSE i \in top : \A j \in top : j <= i].end

\* the builder after the items p[k..]: nodes so far, the indices of the open
\* blocks (innermost last) and the next line
RECURSIVE Build(_, _, _, _, _)
Build(p, k, nodes, stack, l) ==
    IF k > Len(p)
    THEN IF stack = <<>>
         THEN [nodes EXCEPT ![1].end = RootEnd(nodes)]
         ELSE Build(p, k, CloseBlock(nodes, stack[Len(stack)], l),
                    SubSeq(stack, 1, Len(stack) - 1), l + 1)
    ELSE IF p[k].pop > 0
    THEN Build([p EXCEPT ![k].pop = @ - 1], k,
               CloseBlock(nodes, stack[Len(stack)], l),
               SubSeq(stack, 1, Len(stack) - 1), l + 1)
    ELSE LET par == IF stack = <<>> THEN 1 ELSE stack[Len(stack)]
             new == ItemNodes(p[k], par, Len(nodes), l)
         IN Build(p, k + 1, nodes \o new,
                  IF p[k].op \in Openers
                  THEN Append(stack, Len(nodes) + BlockOffset(p[k].op))
                  ELSE stack,
                  l + 1)

BuildTree(p) ==
    Build(p, 1, <<Node("source_file", 0, TRUE, "", "", 0, 0, 0)>>, <<>>, 0)

(***************************************************************************)
(* The state: the analyzed tree, the Analyzer's fields (analyzer.rs lines  *)
(* 21-27) and the position of analyze() in its walk.                       *)
(***************************************************************************)
VARIABLES
    tree,           \* Analyzer.tree: the nodes in document order
    pc,             \* "walk", "unused", "done", or "panic" (an unwrap of None)
    cur,            \* the index of the next node eval_node visits
    diagnostics,    \* Analyzer.diagnostics
    declarations,   \* Analyzer.declarations: the map from name to bucket
    identifiers,    \* Analyzer.identifiers
    first,          \* None, or Some(result of the first analyze of the tree)
    query,          \* None, or Some(position of the completion request)
    completions     \* the declarations get_declared_at returned for it

\* the analyzer's part of the state
avars ==
    <<tree, pc, cur, diagnostics, declarations, identifiers, first, query,
      completions>>

(***************************************************************************)
(* The state of the server: the Backend's document map (backend.rs lines   *)
(* 8-11), the handlers of the events and what the client has received.     *)
(***************************************************************************)
VARIABLES
    events,         \* the events the client sends, in the order it sends them
    hpc,            \* the position of the handler of each event
    document_map,   \* Backend.document_map: None or Some(Document) per uri
    shard,          \* the shard of the document map that holds each uri
    guard,          \* per shard, the handler that holds its lock (0: none)
    opening,        \* per handler of did_open, the Document it has built
    sent,           \* the publish_diagnostics calls, in order
    log,            \* the log_message calls, in order
    response        \* per handler of completion, the Document it has read

\* the server's part of the state
svars ==
    <<events, hpc, document_map, shard, guard, opening, sent, log, response>>

vars ==
    <<tree, pc, cur, diagnostics, declarations, identifiers, first, query,
      completions, events, hpc, document_map, shard, guard, opening, sent,
      log, response>>

(***************************************************************************)
(* tree_sitter::Node navigation; 0 stands for None.                        *)
(***************************************************************************)
RECURSIVE SetToSeq(_)
SetToSeq(S) ==
    IF S = {} THEN <<>>
    ELSE LET m == CHOOSE x \in S : \A y \in S : x <= y
         IN <<m>> \o SetToSeq(S \ {m})

MinOf(S) == IF S = {} THEN 0 ELSE CHOOSE x \in S : \A y \in S : x <= y

ChildSet(i) == {j \in 1..Len(tree) : tree[j].parent = i}

NamedChildSet(i) == {j \in ChildSet(i) : tree[j].named}

named_children(i) == SetToSeq(NamedChildSet(i))

named_child0(i) == MinOf(NamedChildSet(i))

child_by_field_name(i, f) == MinOf({j \in ChildSet(i) : tree[j].field = f})

next_named_sibling(i) ==
    MinOf({j \in NamedChildSet(tree[i].parent) : j > i})

utf8_text(i) == tree[i].text

NodeTypeOf(i) == NodeTypeFrom(tree[i].kind)

\* utils.rs
get_node_range(i) == Rng(tree[i].start, tree[i].end)

(***************************************************************************)
(* diagnostic.rs                                                           *)
(***************************************************************************)
\* ErrorKind::InvalidName is pushed by the analyzer; its message is not in
\* diagnostic.rs
InvalidNameMessage == "Invalid name"

ErrorKindToString(kind, str) ==
    CASE kind = "SyntaxError" -> "Syntax error"
      [] kind = "Unexpected" -> "Unexpected token"
      [] kind = "ExpectedExpr" -> "Expected expression"
      [] kind = "ExpectedField" -> "Expected field name"
      [] kind = "UndelimitedStr" -> "Undelimited string"
      [] kind = "Missing" -> "Missing '" \o str \o "'"
      [] kind = "Redeclaration" -> "Redeclaring existing identifier '" \o str \o "'"
      [] kind = "Undeclared" -> "Undeclared identifier '" \o str \o "'"
      [] kind = "ContinueOutside" -> "continue outside of a loop"
      [] kind = "BreakOutside" -> "break outside of a loop"
      [] kind = "ReturnOutside" -> "return outside of a function"
      [] kind = "InvalidName" -> InvalidNameMessage

WarnKindToString(kind) ==
    CASE kind = "UnusedResult" -> "Unused result"

HintKindToString(kind, str) ==
    CASE kind = "Unreachable" -> "Unreachable code"
      [] kind = "EmptyMatch" -> "Empty match expression"
      [] kind = "Unused" -> "'" \o str \o "' is never used"
      [] kind = "Assign" -> "Consider assigning the resulting value"

error(kind, str, range) ==
    [range |-> range, severity |-> "ERROR", source |-> "icelang_ls",
     message |-> ErrorKindToString(kind, str), tags |-> None]

warn(kind, range) ==
    [range |-> range, severity |-> "WARNING", source |-> "icelang_ls",
     message |-> WarnKindToString(kind), tags |-> None]

hint(kind, str, range) ==
    [range |-> range, severity |-> "HINT", source |-> "icelang_ls",
     message |-> HintKindToString(kind, str), tags |-> Some(<<"UNNECESSARY">>)]

(***************************************************************************)
(* declarations.rs                                                         *)
(***************************************************************************)
Variable == [tag |-> "Variable", args |-> <<>>]

Function(args) == [tag |-> "Function", args |-> args]

IsFunction(kind) == kind.tag = "Function"

\* Declaration::new
NewDeclaration(name, kind, range, name_range, scope, is_param) ==
    [name |-> name, kind |-> kind, range |-> range, name_range |-> name_range,
     scope |-> scope, used |-> FALSE, builtin |-> FALSE, param |-> is_param]

\* impl From<&BuiltinFn> for Declaration (the parameter names of the catalog
\* are not kept)
BuiltinDeclaration(name) ==
    [name |-> name, kind |-> Function(<<>>), range |-> NIL_RANGE,
     name_range |-> NIL_RANGE, scope |-> None, used |-> TRUE, builtin |-> TRUE,
     param |-> FALSE]

\* the equality a derived PartialEq would give: every field compared
DeclEq_derived(a, b) == a = b

\* impl PartialEq for Declaration
DeclEq(a, b) == a.name = b.name /\ a.scope = b.scope

\* DeclarationMap::new
NewDeclarationMap == [n \in BuiltinNames |-> <<BuiltinDeclaration(n)>>]

Contains(bucket, value) == \E i \in 1..Len(bucket) : DeclEq(bucket[i], value)

\* insert without the test for an equal declaration: the value is always
\* pushed
insert_unchecked(map, value) ==
    IF value.name \in DOMAIN map
    THEN [ok |-> TRUE, map |-> [map EXCEPT ![value.name] = Append(@, value)]]
    ELSE [ok |-> TRUE, map |-> (value.name :> <<value>>) @@ map]

\* DeclarationMap::insert: the returned flag and the map after the call
insert(map, value) ==
    IF value.name \in DOMAIN map
    THEN IF Contains(map[value.name], value)
         THEN [ok |-> FALSE, map |-> map]
         ELSE [ok |-> TRUE,
               map |-> [map EXCEPT ![value.name] = Append(@, value)]]
    ELSE [ok |-> TRUE, map |-> (value.name :> <<value>>) @@ map]

\* is_declaration_at without hoisting: a function tested as a variable is
is_declaration_at_unhoisted(decl, position) ==
    LET condition == PosGt(position, decl.range.end)
        inside_scope ==
            IF decl.scope # None
            THEN PosGt(position, decl.scope[1].start) /\ PosLt(position, decl.scope[1].end)
            ELSE TRUE
    IN condition /\ inside_scope

\* is_declaration_at with a variable visible from the start of its range
is_declaration_at_from_start(decl, position) ==
    LET condition ==
            IF IsFunction(decl.kind)
            THEN PosLt(position, decl.range.start) \/ PosGt(position, decl.range.end)
            ELSE PosGt(position, decl.range.start)
        inside_scope ==
            IF decl.scope # None
            THEN PosGt(position, decl.scope[1].start) /\ PosLt(position, decl.scope[1].end)
            ELSE TRUE
    IN condition /\ inside_scope

\* is_declaration_at without the test of the scope
is_declaration_at_unscoped(decl, position) ==
    IF IsFunction(decl.kind)
    THEN PosLt(position, decl.range.start) \/ PosGt(position, decl.range.end)
    ELSE PosGt(position, decl.range.end)

is_declaration_at(decl, position) ==
    LET condition ==
            IF IsFunction(decl.kind)
            THEN PosLt(position, decl.range.start) \/ PosGt(position, decl.range.end)
            ELSE PosGt(position, decl.range.end)
        inside_scope ==
            IF decl.scope # None
            THEN PosGt(position, decl.scope[1].start) /\ PosLt(position, decl.scope[1].end)
            ELSE TRUE
    IN condition /\ inside_scope

\* the index in the bucket of the first declaration is_declared_at's loop
\* accepts for the position, 0 when there is none
first_declared_at(bucket, position) ==
    MinOf({i \in 1..Len(bucket) : is_declaration_at(bucket[i], position)})

\* DeclarationMap::is_declared_at: the returned flag and the map after it
is_declared_at(map, identifer) ==
    IF identifer.name \in DOMAIN map
    THEN LET i == first_declared_at(map[identifer.name], identifer.range.end) IN
         IF i = 0 THEN [found |-> FALSE, map |-> map]
         ELSE [found |-> TRUE,
               map |-> IF identifer.used
                       THEN [map EXCEPT ![identifer.name][i].used = TRUE]
                       ELSE map]
    ELSE [found |-> FALSE, map |-> map]

\* DeclarationMap::get_nearest: None, or Some(declaration)
RECURSIVE get_nearest_from(_, _, _, _)
get_nearest_from(bucket, position, k, nearest) ==
    IF k > Len(bucket) THEN nearest
    ELSE LET decl == bucket[k] IN
         get_nearest_from(bucket, position, k + 1,
             IF is_declaration_at(decl, position)
             THEN IF nearest # None
                  THEN IF PosGt(decl.range.end, nearest[1].range.end)
                       THEN Some(decl)
                       ELSE nearest
                  ELSE Some(decl)
             ELSE nearest)

get_nearest(bucket, position) == get_nearest_from(bucket, position, 1, None)

\* HashMap::values() visits the buckets in the order of the map's hasher:
\* any order of the keys
RECURSIVE Orders(_)
Orders(S) ==
    IF S = {} THEN {<<>>}
    ELSE UNION {{<<k>> \o o : o \in Orders(S \ {k})} : k \in S}

Flatten(ss) ==
    LET RECURSIVE F(_)
        F(k) == IF k > Len(ss) THEN <<>> ELSE ss[k] \o F(k + 1)
    IN F(1)

UnusedOf(bucket) ==
    LET RECURSIVE F(_)
        F(k) == IF k > Len(bucket) THEN <<>>
                ELSE (IF ~bucket[k].used THEN <<bucket[k]>> ELSE <<>>) \o F(k + 1)
    IN F(1)

\* DeclarationMap::get_unused, the buckets visited in the order `order`
get_unused(map, order) ==
    Flatten([k \in 1..Len(order) |-> UnusedOf(map[order[k]])])

\* the keys whose order get_unused's result depends on
UnusedKeys(map) == {n \in DOMAIN map : UnusedOf(map[n]) # <<>>}

\* DeclarationMap::get_declared_at, as the set of the declarations returned
get_declared_at(map, position) ==
    {get_nearest(map[n], position)[1] :
        n \in {m \in DOMAIN map : get_nearest(map[m], position) # None}}

(***************************************************************************)
(* analyzer.rs.  A handler takes the Analyzer's fields as a record and     *)
(* gives them back as they are after the call; `panicked` is set when the  *)
(* call unwraps a None.                                                    *)
(***************************************************************************)
Push(st, d) == [st EXCEPT !.diagnostics = Append(@, d)]

Panic(st) == [st EXCEPT !.panicked = TRUE]

handle_syntax_error(st, i) ==
    LET range == get_node_range(i)
        s1 == IF tree[i].error
              THEN LET child == named_child0(i) IN
                   Push(st,
                        IF child # 0
                        THEN IF NodeTypeOf(child) = "ExprIdentifier"
                             THEN error("SyntaxError", "", get_node_range(child))
                             ELSE error("Unexpected", "", get_node_range(child))
                        ELSE error("SyntaxError", "", range))
              ELSE st
    IN
    IF tree[i].missing
    THEN Push(s1,
              IF NodeTypeOf(i) = "ExprIdentifier"
              THEN LET parent == tree[i].parent
                       kind == IF parent # 0 /\ utf8_text(parent) = "."
                               THEN "ExpectedField"
                               ELSE "ExpectedExpr"
                   IN error(kind, "", range)
              ELSE error("Missing", tree[i].kind, range))
    ELSE s1

\* the last named child of a node, 0 when it has none
LastNamedChild(i) ==
    IF NamedChildSet(i) = {} THEN 0
    ELSE CHOOSE j \in NamedChildSet(i) : \A k \in NamedChildSet(i) : k <= j

eval_expression(st, i) ==
    LET child == named_child0(i) IN
    IF child = 0 THEN st
    ELSE
    LET node_type == NodeTypeOf(child)
        parent == tree[i].parent
        return_value ==
            IF parent # 0
            THEN NodeTypeOf(parent) = "StmtBlock" /\ LastNamedChild(parent) = i
            ELSE FALSE
        operator_node == child_by_field_name(child, "operator")
    IN
    IF node_type = "ExprBinary" /\ operator_node = 0 THEN Panic(st)
    ELSE
    LET unused ==
            CASE node_type = "ExprBinary" -> utf8_text(operator_node) # "="
              [] node_type \in {"ExprUnary", "ExprLiteral", "ExprIdentifier"} -> TRUE
              [] OTHER -> FALSE
    IN
    IF ~return_value /\ unused
    THEN Push(Push(st, warn("UnusedResult", get_node_range(i))),
              hint("Assign", "", get_node_range(i)))
    ELSE st

eval_literal(st, i) ==
    LET child == named_child0(i) IN
    IF child # 0 /\ tree[child].kind = "string"
       /\ tree[child].start.line # tree[child].end.line
    THEN Push(Push(st, error("UndelimitedStr", "",
                             Rng(tree[child].start, tree[child].start))),
              error("UndelimitedStr", "", Rng(tree[child].end, tree[child].end)))
    ELSE st

\* insert every declaration of the sequence, the results ignored
RECURSIVE InsertAll(_, _, _)
InsertAll(map, decls, k) ==
    IF k > Len(decls) THEN map
    ELSE InsertAll(insert(map, decls[k]).map, decls, k + 1)

\* get_function_args: the parameter names and the declarations of the
\* parameters and of `self`; panicked when `body` or `args` is absent
get_function_args(i) ==
    LET body == child_by_field_name(i, "body")
        args == child_by_field_name(i, "args")
    IN
    IF body = 0 \/ args = 0
    THEN [panicked |-> TRUE, names |-> <<>>, declarations |-> <<>>]
    ELSE
    LET range == get_node_range(args)
        kept == SetToSeq({a \in NamedChildSet(args) : ~tree[a].error})
        scope == Some(get_node_range(body))
    IN
    [panicked |-> FALSE,
     names |-> [k \in 1..Len(kept) |-> utf8_text(kept[k])],
     declarations |->
        [k \in 1..Len(kept) |->
            NewDeclaration(utf8_text(kept[k]), Variable, range,
                           get_node_range(kept[k]), scope, TRUE)]
        \o <<NewDeclaration("self", Variable, NIL_RANGE, NIL_RANGE, scope, TRUE)>>]

eval_lambda(st, i) ==
    LET fa == get_function_args(i) IN
    IF fa.panicked THEN Panic(st)
    ELSE [st EXCEPT !.declarations = InsertAll(@, fa.declarations, 1)]

\* the scope of a declaration statement: its parent's range when the parent
\* is a block
ScopeOf(i) ==
    LET parent == tree[i].parent IN
    IF parent # 0 /\ NodeTypeOf(parent) = "StmtBlock"
    THEN Some(get_node_range(parent))
    ELSE None

\* insert the declaration; a rejected insert is a Redeclaration error
Declare(st, decl) ==
    LET r == insert(st.declarations, decl) IN
    IF ~r.ok
    THEN Push([st EXCEPT !.declarations = r.map],
              error("Redeclaration", decl.name, decl.name_range))
    ELSE [st EXCEPT !.declarations = r.map]

eval_var_decl(st, i) ==
    LET name_node == child_by_field_name(i, "name") IN
    IF name_node = 0 THEN Panic(st)
    ELSE
    LET name == utf8_text(name_node)
        name_range == get_node_range(name_node)
        s1 == IF name \in KEYWORDS
              THEN Push(st, error("InvalidName", "", name_range))
              ELSE st
        value_node == child_by_field_name(i, "value")
    IN
    IF value_node = 0 THEN Panic(s1)
    ELSE
    LET scope == ScopeOf(i) IN
    IF NodeTypeOf(value_node) = "ExprLambda"
    THEN LET body == child_by_field_name(value_node, "body") IN
         IF body = 0 THEN Panic(s1)
         ELSE Declare(s1, NewDeclaration(name, Variable,
                              Rng(tree[i].start, tree[body].start),
                              name_range, scope, FALSE))
    ELSE Declare(s1, NewDeclaration(name, Variable, get_node_range(i),
                                    name_range, scope, FALSE))

eval_func_decl(st, i) ==
    LET name_node == child_by_field_name(i, "name") IN
    IF name_node = 0 THEN Panic(st)
    ELSE
    LET name == utf8_text(name_node)
        name_range == get_node_range(name_node)
        s1 == IF name \in KEYWORDS
              THEN Push(st, error("InvalidName", "", name_range))
              ELSE st
        block == child_by_field_name(i, "body")
        fa == get_function_args(i)
    IN
    IF block = 0 \/ fa.panicked THEN Panic(s1)
    ELSE
    LET range == Rng(tree[i].start, tree[block].start)
        s2 == [s1 EXCEPT !.declarations = InsertAll(@, fa.declarations, 1)]
    IN Declare(s2, NewDeclaration(name, Function(fa.names), range, name_range,
                                  ScopeOf(i), FALSE))

skip_identifer(i) ==
    IF tree[i].start = tree[i].end THEN TRUE
    ELSE
    LET parent == tree[i].parent IN
    IF parent = 0 THEN FALSE
    ELSE
    LET t == NodeTypeOf(parent) IN
    CASE t \in {"StmtFuncDecl", "Iterator"} -> TRUE
      [] t \in {"StmtVarDecl", "Prop"} -> child_by_field_name(parent, "name") = i
      [] t = "Args" ->
           IF tree[parent].parent # 0
           THEN NodeTypeOf(tree[parent].parent) # "ExprCall"
           ELSE FALSE
      [] t = "ExprField" -> child_by_field_name(parent, "field") = i
      [] OTHER -> FALSE

eval_identifier(st, i) ==
    IF ~skip_identifer(i)
    THEN [st EXCEPT !.identifiers =
              Append(@, [name |-> utf8_text(i), range |-> get_node_range(i)])]
    ELSE st

RECURSIVE has_parent_from(_, _)
has_parent_from(parent, parent_types) ==
    IF parent = 0 THEN FALSE
    ELSE IF NodeTypeOf(parent) \in parent_types THEN TRUE
    ELSE has_parent_from(tree[parent].parent, parent_types)

has_parent(i, parent_types) == has_parent_from(tree[i].parent, parent_types)

\* the loop of next_unreachable from `sibling` on: <<start, end>>
RECURSIVE unreachable_scan(_, _, _)
unreachable_scan(sibling, start, end) ==
    IF sibling = 0 THEN <<start, end>>
    ELSE unreachable_scan(
             next_named_sibling(sibling),
             IF start = None THEN Some(tree[sibling].start) ELSE start,
             IF end # None
             THEN IF PosGt(tree[sibling].end, end[1])
                  THEN Some(tree[sibling].end)
                  ELSE end
             ELSE Some(tree[sibling].end))

next_unreachable(st, i) ==
    LET se == unreachable_scan(next_named_sibling(i), None, None) IN
    IF se[1] # None /\ se[2] # None
    THEN Push(st, hint("Unreachable", "", Rng(se[1][1], se[2][1])))
    ELSE st

eval_continue(st, i) ==
    IF has_parent(i, LOOP_NODE) THEN next_unreachable(st, i)
    ELSE Push(st, error("ContinueOutside", "", get_node_range(i)))

eval_break(st, i) ==
    IF has_parent(i, LOOP_NODE) THEN next_unreachable(st, i)
    ELSE Push(st, error("BreakOutside", "", get_node_range(i)))

eval_return(st, i) ==
    IF has_parent(i, FUNCTION_NODE) THEN next_unreachable(st, i)
    ELSE Push(st, error("ReturnOutside", "", get_node_range(i)))

eval_for_loop(st, i) ==
    LET iterator == child_by_field_name(i, "iterator")
        body == child_by_field_name(i, "body")
    IN
    IF iterator = 0 \/ body = 0 THEN Panic(st)
    ELSE
    LET kids == named_children(iterator)
        decls == [k \in 1..Len(kids) |->
                    NewDeclaration(utf8_text(kids[k]), Variable,
                                   get_node_range(iterator),
                                   get_node_range(kids[k]),
                                   Some(get_node_range(body)), FALSE)]
    IN [st EXCEPT !.declarations = InsertAll(@, decls, 1)]

eval_match(st, i) ==
    LET body == child_by_field_name(i, "body") IN
    IF body = 0 THEN Panic(st)
    ELSE IF NamedChildSet(body) = {}
    THEN Push(st, hint("EmptyMatch", "", get_node_range(i)))
    ELSE st

\* eval_node without its recursion into the children, which the walk makes
\* by visiting the nodes in document order
eval_node(st, i) ==
    LET s1 == handle_syntax_error(st, i)
        t == NodeTypeOf(i)
    IN
    CASE t = "StmtExpression" -> eval_expression(s1, i)
      [] t = "StmtVarDecl" -> eval_var_decl(s1, i)
      [] t = "StmtFuncDecl" -> eval_func_decl(s1, i)
      [] t = "StmtFor" -> eval_for_loop(s1, i)
      [] t = "StmtContinue" -> eval_continue(s1, i)
      [] t = "StmtBreak" -> eval_break(s1, i)
      [] t = "StmtReturn" -> eval_return(s1, i)
      [] t = "ExprMatch" -> eval_match(s1, i)
      [] t = "ExprLambda" -> eval_lambda(s1, i)
      [] t = "ExprIdentifier" -> eval_identifier(s1, i)
      [] t = "ExprLiteral" -> eval_literal(s1, i)
      [] OTHER -> s1

\* resolve_identifiers from the k-th identifier on.  The lookup is the scan
\* of is_declared_at (the first declaration of the bucket that applies at
\* the end of the identifier's range), and the declaration found is marked
\* used (analyzer.rs line 395)
RECURSIVE resolve_from(_, _)
resolve_from(st, k) ==
    IF k > Len(st.identifiers) THEN st
    ELSE LET ident == st.identifiers[k]
             r == is_declared_at(st.declarations,
                     [name |-> ident.name, range |-> ident.range, used |-> TRUE])
         IN resolve_from(
                IF r.found
                THEN [st EXCEPT !.declarations = r.map]
                ELSE Push(st, error("Undeclared", ident.name, ident.range)),
                k + 1)

resolve_identifiers(st) == resolve_from(st, 1)

RECURSIVE report_from(_, _, _)
report_from(st, unused, k) ==
    IF k > Len(unused) THEN st
    ELSE report_from(
             IF unused[k].name # "_" /\ unused[k].name # "self"
             THEN Push(st, hint("Unused", unused[k].name, unused[k].name_range))
             ELSE st,
             unused, k + 1)

\* report_unused, get_unused visiting the buckets in the order `order`
report_unused(st, order) == report_from(st, get_unused(st.declarations, order), 1)

(***************************************************************************)
(* analyze() as a state machine.                                           *)
(***************************************************************************)
Fields ==
    [diagnostics |-> diagnostics, declarations |-> declarations,
     identifiers |-> identifiers, panicked |-> FALSE]

\* Backend::new: no event, no document
ServerIdle ==
    /\ events = <<>>
    /\ hpc = <<>>
    /\ document_map = [u \in Uris |-> None]
    /\ shard = [u \in Uris |-> 1]
    /\ guard = [s \in 1..NumShards |-> 0]
    /\ opening = <<>>
    /\ sent = <<>>
    /\ log = <<>>
    /\ response = <<>>

\* Analyzer::new on the tree of a document
Init ==
    /\ ServerIdle
    /\ \E p \in Programs : tree = BuildTree(p)
    /\ pc = "walk"
    /\ cur = 2
    /\ diagnostics = <<>>
    /\ declarations = NewDeclarationMap
    /\ identifiers = <<>>
    /\ first = None
    /\ query = None
    /\ completions = {}

\* one call of eval_node: the node `cur` is handled, its children follow
EvalNode ==
    /\ pc = "walk"
    /\ cur <= Len(tree)
    /\ LET s == eval_node(Fields, cur) IN
       IF s.panicked
       THEN /\ pc' = "panic"
            /\ UNCHANGED <<cur, diagnostics, declarations, identifiers>>
       ELSE /\ pc' = "walk"
            /\ cur' = cur + 1
            /\ diagnostics' = s.diagnostics
            /\ declarations' = s.declarations
            /\ identifiers' = s.identifiers
    /\ UNCHANGED <<tree, first, query, completions>>
    /\ UNCHANGED svars

\* the walk is over: resolve_identifiers
ResolveIdentifiers ==
    /\ pc = "walk"
    /\ cur > Len(tree)
    /\ LET s == resolve_identifiers(Fields) IN
       /\ diagnostics' = s.diagnostics
       /\ declarations' = s.declarations
    /\ pc' = "unused"
    /\ UNCHANGED <<tree, cur, identifiers, first, query, completions>>
    /\ UNCHANGED svars

\* report_unused; analyze returns the diagnostics and the declarations
ReportUnused ==
    /\ pc = "unused"
    /\ \E order \in Orders(UnusedKeys(declarations)) :
          diagnostics' = report_unused(Fields, order).diagnostics
    /\ pc' = "done"
    /\ UNCHANGED <<tree, cur, declarations, identifiers, first, query,
                   completions>>
    /\ UNCHANGED svars

\* analyze is called again on the same source and tree (a new Analyzer, a
\* new DeclarationMap); the first result is kept for comparison
Reanalyze ==
    /\ pc = "done"
    /\ first = None
    /\ query = None
    /\ first' = Some([diagnostics |-> diagnostics, declarations |-> declarations])
    /\ pc' = "walk"
    /\ cur' = 2
    /\ diagnostics' = <<>>
    /\ declarations' = NewDeclarationMap
    /\ identifiers' = <<>>
    /\ UNCHANGED <<tree, query, completions>>
    /\ UNCHANGED svars

\* the positions a completion is requested at: the start of the document
\* and the boundaries of the nodes
QueryPositions ==
    {Pos(0, 0)} \cup {tree[i].start : i \in 1..Len(tree)}
                \cup {tree[i].end : i \in 1..Len(tree)}

\* Backend::completion on the analyzed document: get_declared_at on the
\* declarations analyze returned
Completion ==
    /\ pc = "done"
    /\ query = None
    /\ \E p \in QueryPositions :
          /\ query' = Some(p)
          /\ completions' = get_declared_at(declarations, p)
    /\ UNCHANGED <<tree, pc, cur, diagnostics, declarations, identifiers, first>>
    /\ UNCHANGED svars

Next == EvalNode \/ ResolveIdentifiers \/ ReportUnused

Spec == Init /\ [][Next]_vars

\* analyze run twice on the same tree
NextRerun == Next \/ Reanalyze

SpecRerun == Init /\ [][NextRerun]_vars

\* analyze, then one completion request
NextCompletion == Next \/ Completion

SpecCompletion == Init /\ [][NextCompletion]_vars

(***************************************************************************)
(* backend.rs and document.rs.  An event of the client is handled by one   *)
(* task.  A task runs on a thread from one await to the next; the          *)
(* document map is a DashMap: get, get_mut and insert take the lock of the *)
(* shard of the key and block the thread while another task holds it, and  *)
(* the guard get_mut returns holds the lock until it is dropped.           *)
(***************************************************************************)
\* an event: its kind, its document, the text it delivers and whether the
\* parser returns a tree for the text
Event(kind, uri, text, parses) ==
    [kind |-> kind, uri |-> uri, text |-> text, parses |-> parses]

EventSet ==
    {Event(k, u, x, b) : k \in {"did_open", "did_change"}, u \in Uris,
                         x \in Texts, b \in BOOLEAN}
    \cup {Event("completion", u, "", TRUE) : u \in Uris}

Tasks == 1..Len(events)

\* params.text_document.version: the client counts the versions of a
\* document
Version(t) ==
    Cardinality({j \in 1..t : /\ events[j].uri = events[t].uri
                              /\ events[j].kind # "completion"})

\* parser.parse(&text, None): None, or the tree of the text
Parse(e) == IF e.parses THEN Some([of_text |-> e.text]) ELSE None

\* analyze(content, tree): the diagnostics and the declarations of the
\* content and the tree given
AnalyzeResult(content, parsed) ==
    [diagnostics |-> [analyzed |-> [content |-> content, tree |-> parsed]],
     declarations |-> [analyzed |-> [content |-> content, tree |-> parsed]]]

\* Document::from_params: None when the parser returns no tree
from_params(e) ==
    IF Parse(e) = None THEN None
    ELSE Some([content |-> e.text, tree |-> Parse(e)[1],
               declarations |-> "new"])

\* did_change that replaces the tree and keeps the content
did_change_tree_only(document, e) ==
    [document EXCEPT !.tree = Parse(e)[1]]

\* Document::did_change on a text the parser returns a tree for
did_change(document, e) ==
    [document EXCEPT !.tree = Parse(e)[1], !.content = e.text]

\* the tasks that keep a thread: blocked in a lock of the map, or between
\* two awaits
Busy ==
    {t \in Tasks : hpc[t] \in {"open_blocked", "change_blocked", "changing",
                               "completion_blocked"}}

\* a thread is free to run a task
CanRun == Cardinality(Busy) < Workers

\* the handlers are started in the order of the events
Arrived(t) == \A j \in 1..(t - 1) : hpc[j] # "new"

\* no task holds the lock of the shard of the uri
LockFree(uri) == guard[shard[uri]] = 0

LogMessage(t, type, message) == [task |-> t, type |-> type, message |-> message]

PublishDiagnostics(t, diags) ==
    [uri |-> events[t].uri, diagnostics |-> diags, version |-> Version(t)]

\* the server starts: the client's events, the shards of the uris
ServerInit ==
    /\ tree = BuildTree(<<>>)
    /\ pc = "done"
    /\ cur = 2
    /\ diagnostics = <<>>
    /\ declarations = NewDeclarationMap
    /\ identifiers = <<>>
    /\ first = None
    /\ query = None
    /\ completions = {}
    /\ events \in [1..MaxEvents -> EventSet]
    /\ hpc = [t \in 1..MaxEvents |-> "new"]
    /\ document_map = [u \in Uris |-> None]
    /\ shard \in [Uris -> 1..NumShards]
    /\ guard = [s \in 1..NumShards |-> 0]
    /\ opening = [t \in 1..MaxEvents |-> None]
    /\ sent = <<>>
    /\ log = <<>>
    /\ response = [t \in 1..MaxEvents |-> None]

\* Backend::did_open up to its first await: from_params, then log_message
DidOpenStart(t) ==
    /\ events[t].kind = "did_open"
    /\ hpc[t] = "new" /\ Arrived(t) /\ CanRun
    /\ IF from_params(events[t]) # None
       THEN /\ opening' = [opening EXCEPT ![t] = from_params(events[t])]
            /\ log' = Append(log, LogMessage(t, "INFO", "file opened!"))
            /\ hpc' = [hpc EXCEPT ![t] = "open_logged"]
       ELSE /\ log' = Append(log, LogMessage(t, "ERROR",
                                     "'textDocument/didOpen' failed"))
            /\ hpc' = [hpc EXCEPT ![t] = "done"]
            /\ UNCHANGED opening
    /\ UNCHANGED <<events, document_map, shard, guard, sent, response>>
    /\ UNCHANGED avars

\* Backend::did_open from the first await to the second: analyze, insert
\* into the map (blocked while the shard is locked), publish_diagnostics
DidOpenInsert(t) ==
    /\ events[t].kind = "did_open"
    /\ \/ hpc[t] = "open_logged" /\ CanRun
       \/ hpc[t] = "open_blocked" /\ LockFree(events[t].uri)
    /\ IF LockFree(events[t].uri)
       THEN LET document == opening[t][1]
                result == AnalyzeResult(document.content, document.tree)
            IN
            /\ document_map' =
                  [document_map EXCEPT ![events[t].uri] =
                      Some([document EXCEPT !.declarations = result.declarations])]
            /\ sent' = Append(sent, PublishDiagnostics(t, result.diagnostics))
            /\ hpc' = [hpc EXCEPT ![t] = "open_publishing"]
       ELSE /\ hpc' = [hpc EXCEPT ![t] = "open_blocked"]
            /\ UNCHANGED <<document_map, sent>>
    /\ UNCHANGED <<events, shard, guard, opening, log, response>>
    /\ UNCHANGED avars

\* Backend::did_open after the await of publish_diagnostics
DidOpenEnd(t) ==
    /\ events[t].kind = "did_open"
    /\ hpc[t] = "open_publishing" /\ CanRun
    /\ hpc' = [hpc EXCEPT ![t] = "done"]
    /\ UNCHANGED <<events, document_map, shard, guard, opening, sent, log,
                   response>>
    /\ UNCHANGED avars

\* Backend::did_change: get_mut (blocked while the shard is locked), then
\* Document::did_change under the guard; the unwrap of parse panics on None
\* and the unwinding drops the guard
DidChangeStart(t) ==
    /\ events[t].kind = "did_change"
    /\ \/ hpc[t] = "new" /\ Arrived(t) /\ CanRun
       \/ hpc[t] = "change_blocked" /\ LockFree(events[t].uri)
    /\ IF ~LockFree(events[t].uri)
       THEN /\ hpc' = [hpc EXCEPT ![t] = "change_blocked"]
            /\ UNCHANGED <<document_map, guard>>
       ELSE IF document_map[events[t].uri] = None
       THEN /\ hpc' = [hpc EXCEPT ![t] = "done"]
            /\ UNCHANGED <<document_map, guard>>
       ELSE IF Parse(events[t]) = None
       THEN /\ hpc' = [hpc EXCEPT ![t] = "panicked"]
            /\ UNCHANGED <<document_map, guard>>
       ELSE /\ guard' = [guard EXCEPT ![shard[events[t].uri]] = t]
            /\ document_map' =
                  [document_map EXCEPT ![events[t].uri] =
                      Some(did_change(document_map[events[t].uri][1], events[t]))]
            /\ hpc' = [hpc EXCEPT ![t] = "changing"]
    /\ UNCHANGED <<events, shard, opening, sent, log, response>>
    /\ UNCHANGED avars

\* Backend::did_change under the guard: analyze, the declarations of the
\* document, publish_diagnostics; the task awaits with the guard held
DidChangeAnalyze(t) ==
    /\ events[t].kind = "did_change"
    /\ hpc[t] = "changing"
    /\ LET document == document_map[events[t].uri][1]
           result == AnalyzeResult(document.content, document.tree)
       IN
       /\ document_map' =
             [document_map EXCEPT ![events[t].uri] =
                 Some([document EXCEPT !.declarations = result.declarations])]
       /\ sent' = Append(sent, PublishDiagnostics(t, result.diagnostics))
    /\ hpc' = [hpc EXCEPT ![t] = "change_publishing"]
    /\ UNCHANGED <<events, shard, guard, opening, log, response>>
    /\ UNCHANGED avars

\* Backend::did_change after the await of publish_diagnostics: the guard is
\* dropped at the end of the `if let`
DidChangeEnd(t) ==
    /\ events[t].kind = "did_change"
    /\ hpc[t] = "change_publishing" /\ CanRun
    /\ guard' = [guard EXCEPT ![shard[events[t].uri]] = 0]
    /\ hpc' = [hpc EXCEPT ![t] = "done"]
    /\ UNCHANGED <<events, document_map, shard, opening, sent, log, response>>
    /\ UNCHANGED avars

\* Backend::completion: get (blocked while the shard is locked), the
\* declarations of the document read, the response
CompletionRequest(t) ==
    /\ events[t].kind = "completion"
    /\ \/ hpc[t] = "new" /\ Arrived(t) /\ CanRun
       \/ hpc[t] = "completion_blocked" /\ LockFree(events[t].uri)
    /\ IF LockFree(events[t].uri)
       THEN /\ response' =
                  [response EXCEPT ![t] =
                      Some([keywords |-> KEYWORDS,
                            document |-> document_map[events[t].uri]])]
            /\ hpc' = [hpc EXCEPT ![t] = "done"]
       ELSE /\ hpc' = [hpc EXCEPT ![t] = "completion_blocked"]
            /\ UNCHANGED response
    /\ UNCHANGED <<events, document_map, shard, guard, opening, sent, log>>
    /\ UNCHANGED avars

ServerNext ==
    \/ \E t \in Tasks : DidOpenStart(t)
    \/ \E t \in Tasks : DidOpenInsert(t)
    \/ \E t \in Tasks : DidOpenEnd(t)
    \/ \E t \in Tasks : DidChangeStart(t)
    \/ \E t \in Tasks : DidChangeAnalyze(t)
    \/ \E t \in Tasks : DidChangeEnd(t)
    \/ \E t \in Tasks : CompletionRequest(t)

SpecServer == ServerInit /\ [][ServerNext]_vars

\* the handlers under a fair scheduler: a handler that can take a step
\* takes it
SpecServerFair == SpecServer /\ WF_vars(ServerNext)

(***************************************************************************)
(* Properties.                                                             *)
(***************************************************************************)
\* the number of entries of the diagnostics list equal to d
CountDiag(d) == Cardinality({k \in 1..Len(diagnostics) : diagnostics[k] = d})

\* the declarations of a map
DeclsOf(map) == UNION {{map[n][k] : k \in 1..Len(map[n])} : n \in DOMAIN map}

\* node i is a variable or function declaration with a name
IsDeclStmt(i) ==
    /\ tree[i].kind \in {"stmt_var_decl", "stmt_func_decl"}
    /\ child_by_field_name(i, "name") # 0

DeclName(i) == utf8_text(child_by_field_name(i, "name"))

DeclNameRange(i) == get_node_range(child_by_field_name(i, "name"))

\* the table holds a declaration with the name and the scope of the
\* declaration statement i
Redeclares(i) ==
    /\ DeclName(i) \in DOMAIN declarations
    /\ \E k \in 1..Len(declarations[DeclName(i)]) :
          declarations[DeclName(i)][k].scope = ScopeOf(i)

\* s is t with declarations of parameters appended
ExtendedByParams(s, t) ==
    /\ Len(s) <= Len(t)
    /\ \A k \in 1..Len(t) : IF k <= Len(s) THEN t[k] = s[k] ELSE t[k].param

\* C1: when eval_node handles a variable or function declaration whose
\* (name, scope) is that of a declaration of the table, no declaration of the
\* table is changed or dropped and none is added (but the parameters a
\* function declaration inserts before its own insert), and exactly one
\* diagnostic is added: Redeclaration(name) at the range of the name of the
\* rejected declaration
C1_Redeclaration ==
    [][(/\ pc = "walk" /\ pc' = "walk" /\ cur <= Len(tree)
        /\ IsDeclStmt(cur)
        /\ Redeclares(cur))
       => /\ diagnostics' =
               Append(diagnostics,
                      [range |-> DeclNameRange(cur), severity |-> "ERROR",
                       source |-> "icelang_ls",
                       message |-> "Redeclaring existing identifier '"
                                     \o DeclName(cur) \o "'",
                       tags |-> None])
          /\ \A n \in DOMAIN declarations :
                /\ n \in DOMAIN declarations'
                /\ ExtendedByParams(declarations[n], declarations'[n])
          /\ \A n \in DOMAIN declarations' \ DOMAIN declarations :
                ExtendedByParams(<<>>, declarations'[n])
          /\ tree[cur].kind = "stmt_var_decl" => declarations' = declarations
      ]_vars

\* a redeclaring statement has just been handled: its Redeclaration error is
\* the last diagnostic, and the bucket holds one declaration of its scope
C1_Witness ==
    /\ pc = "walk" /\ cur > 2
    /\ IsDeclStmt(cur - 1)
    /\ Len(diagnostics) > 0
    /\ diagnostics[Len(diagnostics)].message =
          "Redeclaring existing identifier '" \o DeclName(cur - 1) \o "'"
    /\ diagnostics[Len(diagnostics)].range = DeclNameRange(cur - 1)
    /\ Cardinality({k \in 1..Len(declarations[DeclName(cur - 1)]) :
                      declarations[DeclName(cur - 1)][k].scope = ScopeOf(cur - 1)}) = 1

\* position p is strictly inside the range
InsideStrict(range, p) == PosGt(p, range.start) /\ PosLt(p, range.end)

\* position p is strictly inside the scope of d, or d has no scope
InScope(d, p) == d.scope = None \/ InsideStrict(d.scope[1], p)

\* the function declarations of the document
FunctionDecls ==
    {d \in DeclsOf(declarations) : d.kind.tag = "Function" /\ ~d.builtin}

\* the Undeclared error of the identifier r
UndeclaredAt(r) ==
    [range |-> r.range, severity |-> "ERROR", source |-> "icelang_ls",
     message |-> "Undeclared identifier '" \o r.name \o "'", tags |-> None]

\* the identifiers are resolved
Resolved == pc \in {"unused", "done"}

\* a function declaration is resolvable from the positions `From` admits: a
\* reference there gets no Undeclared error and a completion there offers
\* the name
HoistedFrom(From(_, _)) ==
    /\ Resolved =>
          \A k \in 1..Len(identifiers) :
             (\E d \in FunctionDecls :
                 /\ d.name = identifiers[k].name
                 /\ From(d, identifiers[k].range.end)
                 /\ InScope(d, identifiers[k].range.end))
             => CountDiag(UndeclaredAt(identifiers[k])) = 0
    /\ query # None =>
          \A d \in FunctionDecls :
             From(d, query[1]) /\ InScope(d, query[1])
             => \E c \in completions : c.name = d.name

\* p is outside [start, end) of the header of d
OutsideHalfOpen(d, p) == PosLt(p, d.range.start) \/ ~PosLt(p, d.range.end)

\* p is before the start or after the end of the header of d
OutsideClosed(d, p) == PosLt(p, d.range.start) \/ PosGt(p, d.range.end)

VarStmts ==
    {i \in 2..Len(tree) :
        /\ tree[i].kind = "stmt_var_decl"
        /\ child_by_field_name(i, "name") # 0
        /\ child_by_field_name(i, "value") # 0
        /\ tree[child_by_field_name(i, "value")].kind # "expr_lambda"}

\* d is the declaration the statement i made
DeclaredBy(d, i) ==
    d.name = DeclName(i) /\ d.name_range = DeclNameRange(i) /\ ~d.param

\* C3: a variable declared by a declaration statement (no lambda) is marked
\* used only if a reference to its name ends after the end of the
\* statement, and a reference whose name has no declaration but variables
\* whose statements end at or after the reference gets exactly one
\* Undeclared error (so `set x = x;` alone: one Undeclared(x), x not used)
C3_Sequential ==
    Resolved =>
       /\ \A i \in VarStmts : \A d \in DeclsOf(declarations) :
             DeclaredBy(d, i) /\ d.used
             => \E k \in 1..Len(identifiers) :
                   /\ identifiers[k].name = d.name
                   /\ PosGt(identifiers[k].range.end, tree[i].end)
       /\ \A k \in 1..Len(identifiers) :
             (\A d \in DeclsOf(declarations) :
                 d.name = identifiers[k].name
                 => \E i \in VarStmts :
                       /\ DeclaredBy(d, i)
                       /\ ~PosGt(identifiers[k].range.end, tree[i].end))
             => CountDiag(UndeclaredAt(identifiers[k])) = 1

\* a variable is referred to in its own initializer only: the reference is
\* Undeclared and the variable is not used
C3_Witness ==
    /\ pc = "done"
    /\ \E i \in VarStmts : \E d \in DeclsOf(declarations) :
          \E k \in 1..Len(identifiers) :
             /\ DeclaredBy(d, i)
             /\ identifiers[k].name = d.name
             /\ PosGt(identifiers[k].range.end, tree[i].start)
             /\ PosLt(identifiers[k].range.end, tree[i].end)
             /\ ~d.used
             /\ Cardinality({e \in DeclsOf(declarations) : e.name = d.name}) = 1
             /\ CountDiag(UndeclaredAt(identifiers[k])) = 1

\* C4: a declaration with a block scope is marked used only if a reference
\* to its name ends strictly inside the block, and a reference gets exactly
\* one Undeclared error when every declaration of its name is either scoped
\* to a block the reference is not strictly inside, or a module-level
\* variable that is declared only later
C4_ScopeConfinement ==
    Resolved =>
       /\ \A d \in DeclsOf(declarations) :
             d.scope # None /\ d.used
             => \E k \in 1..Len(identifiers) :
                   /\ identifiers[k].name = d.name
                   /\ InsideStrict(d.scope[1], identifiers[k].range.end)
       /\ \A k \in 1..Len(identifiers) :
             (\A d \in DeclsOf(declarations) :
                 d.name = identifiers[k].name
                 => \/ d.scope # None
                       /\ ~InsideStrict(d.scope[1], identifiers[k].range.end)
                    \/ d.scope = None /\ d.kind.tag = "Variable"
                       /\ ~PosGt(identifiers[k].range.end, d.range.end))
             => CountDiag(UndeclaredAt(identifiers[k])) = 1

\* a reference outside the block of a scoped declaration of its name, with
\* a module-level variable of the name declared later: Undeclared
C4_Witness ==
    /\ pc = "done"
    /\ \E k \in 1..Len(identifiers) :
          /\ \E d \in DeclsOf(declarations) :
                /\ d.name = identifiers[k].name
                /\ d.scope # None
                /\ ~InsideStrict(d.scope[1], identifiers[k].range.end)
          /\ \E d \in DeclsOf(declarations) :
                /\ d.name = identifiers[k].name
                /\ d.scope = None /\ d.kind.tag = "Variable"
                /\ PosGt(d.range.start, identifiers[k].range.end)
          /\ CountDiag(UndeclaredAt(identifiers[k])) = 1

\* the blocks of the document: the root and the block statements
Blocks == {b \in 1..Len(tree) : b = 1 \/ tree[b].kind = "stmt_block"}

\* the control-flow statement i is where it may be: a return inside a
\* function, a break or a continue inside a loop
ValidPlace(i) ==
    IF tree[i].kind = "stmt_return" THEN has_parent(i, FUNCTION_NODE)
    ELSE has_parent(i, LOOP_NODE)

\* the valid continue, break and return statements of block b that a
\* statement follows
Terminators(b) ==
    {i \in NamedChildSet(b) :
        /\ tree[i].kind \in {"stmt_continue", "stmt_break", "stmt_return"}
        /\ ValidPlace(i)
        /\ next_named_sibling(i) # 0}

\* the Unreachable hint for what follows statement i in its block: from the
\* start of the next statement to the greatest end of the following ones
UnreachableAfter(i) ==
    LET rest == {j \in NamedChildSet(tree[i].parent) : j > i}
        last == CHOOSE j \in rest : \A k \in rest : ~PosGt(tree[k].end, tree[j].end)
    IN hint("Unreachable", "",
            Rng(tree[next_named_sibling(i)].start, tree[last].end))

\* the Unreachable hints that start at a statement of block b
UnreachableIn(b) ==
    {k \in 1..Len(diagnostics) :
        /\ diagnostics[k].message = "Unreachable code"
        /\ \E j \in NamedChildSet(b) : tree[j].start = diagnostics[k].range.start}

\* C5: after the analysis, every block has exactly one Unreachable hint for
\* each valid continue, break or return statement of it that a statement
\* follows, from the start of the next statement to the greatest end of the
\* following ones, and no other Unreachable hint: the body `return; x; x;`
\* of a function has exactly one
C5_Reachability ==
    pc = "done" =>
       \A b \in Blocks :
          /\ \A i \in Terminators(b) : CountDiag(UnreachableAfter(i)) = 1
          /\ Cardinality(UnreachableIn(b)) = Cardinality(Terminators(b))

\* declaration d is visible at position p: p is after its range (outside
\* its header for a function) and strictly inside its scope
VisibleAt(d, p) ==
    /\ IF d.kind.tag = "Function" THEN OutsideClosed(d, p)
       ELSE PosGt(p, d.range.end)
    /\ InScope(d, p)

\* the variable declarations Unused hints are reported for
ReportedVariables ==
    {d \in DeclsOf(declarations) :
        d.kind.tag = "Variable" /\ ~d.builtin /\ d.name \notin {"_", "self"}}

\* C6: after the analysis, a variable declaration (no `_`, no `self`) has
\* exactly one Unused(name) hint at the range of its name if the document
\* has no reference to its name, and none if a reference to its name is at
\* a position where it is visible, for each declaration of a bucket on
\* its own
C6_Unused ==
    pc = "done" =>
       \A d \in ReportedVariables :
          /\ (\A k \in 1..Len(identifiers) : identifiers[k].name # d.name)
             => CountDiag(hint("Unused", d.name, d.name_range)) = 1
          /\ (\E k \in 1..Len(identifiers) :
                 /\ identifiers[k].name = d.name
                 /\ VisibleAt(d, identifiers[k].range.end))
             => CountDiag(hint("Unused", d.name, d.name_range)) = 0

\* C7: a second run of analyze on the same source and tree returns the
\* diagnostics of the first run, element by element in the same order (the
\* Unused hints among them), and the declarations of the first run: the
\* same buckets, in the same order, with the same `used` flags
C7_Idempotence ==
    (pc = "done" /\ first # None)
    => /\ diagnostics = first[1].diagnostics
       /\ declarations = first[1].declarations

\* scope a is nested in scope b: inside it and not equal to it
NestedIn(a, b) ==
    /\ ~PosLt(a.start, b.start)
    /\ ~PosGt(a.end, b.end)
    /\ a # b

\* the declarations made by the text of the document (the builtins and the
\* `self` of a function body have the nil range as the range of their name)
Written == {d \in DeclsOf(declarations) : d.name_range # NIL_RANGE}

\* o and i are declarations of one name, i in a scope nested in that of o
\* (a block, or the body of the function i is a parameter of), and p is
\* strictly inside the scope of i and after both
InnerOuterAt(o, i, p) ==
    /\ o.name = i.name
    /\ i.scope # None
    /\ o.scope = None \/ NestedIn(i.scope[1], o.scope[1])
    /\ VisibleAt(o, p) /\ VisibleAt(i, p)
    /\ PosGt(p, o.range.end) /\ PosGt(p, i.range.end)

\* C8: get_declared_at(position) returns at most one declaration per name;
\* each declaration returned is one of the table that is visible at the
\* position; a name with a visible declaration has one returned, and none
\* of its visible declarations has a range that ends later than that of the
\* one returned; with declarations of a name in an outer and in a nested
\* scope, a query inside the inner scope after both does not return the
\* outer one
C8_NearestMatch ==
    query # None =>
       /\ \A c1, c2 \in completions : c1.name = c2.name => c1 = c2
       /\ \A c \in completions :
             c \in DeclsOf(declarations) /\ VisibleAt(c, query[1])
       /\ \A d \in DeclsOf(declarations) :
             VisibleAt(d, query[1])
             => \E c \in completions :
                   /\ c.name = d.name
                   /\ ~PosGt(d.range.end, c.range.end)
       /\ \A o, i \in Written :
             InnerOuterAt(o, i, query[1]) => o \notin completions

\* C9: every builtin function name has a declaration of the table with
\* used = true, builtin = true and no scope, in the new table and in every
\* later one; a reference to a builtin name gets no Undeclared error; a
\* completion offers every builtin at every position, line 0 column 0
\* included; and no Unused hint names a builtin
C9_BuiltinsPresent ==
    /\ \A b \in BuiltinNames :
          /\ b \in DOMAIN declarations
          /\ \E k \in 1..Len(declarations[b]) :
                /\ declarations[b][k].builtin
                /\ declarations[b][k].used
                /\ declarations[b][k].scope = None
    /\ Resolved =>
          \A k \in 1..Len(identifiers) :
             identifiers[k].name \in BuiltinNames
             => CountDiag(UndeclaredAt(identifiers[k])) = 0
    /\ query # None =>
          \A b \in BuiltinNames :
             \E c \in completions : c.name = b /\ c.builtin
    /\ \A k \in 1..Len(diagnostics) : \A b \in BuiltinNames :
          diagnostics[k].message # HintKindToString("Unused", b)

\* C10: analyze does not abort: no handler panics, whatever named fields
\* the nodes of the tree lack
C10_NoAbort == pc # "panic"

\* the Document whose content, tree and declarations derive from one text
DocumentOf(text) ==
    [content |-> text, tree |-> [of_text |-> text],
     declarations |-> AnalyzeResult(text, [of_text |-> text]).declarations]

\* the handlers of did_open and did_change
Writers == {t \in Tasks : events[t].kind # "completion"}

\* C11: every publish_diagnostics call with version v of a document carries
\* the diagnostics of the analysis of the text that the open or change
\* event with version v of the document delivered; a did_change that has
\* made its changes and holds the guard leaves a document whose content,
\* tree and declarations derive from its text; and a document no did_change
\* is changing derives from one text
C11_Ordering ==
    /\ \A k \in 1..Len(sent) :
          \E t \in Writers :
             /\ events[t].uri = sent[k].uri
             /\ Version(t) = sent[k].version
             /\ sent[k].diagnostics =
                   AnalyzeResult(events[t].text,
                                 [of_text |-> events[t].text]).diagnostics
    /\ \A t \in Writers :
          hpc[t] = "change_publishing"
          => document_map[events[t].uri] = Some(DocumentOf(events[t].text))
    /\ \A u \in Uris :
          (document_map[u] # None
           /\ \A t \in Writers : ~(events[t].uri = u /\ hpc[t] = "changing"))
          => \E x \in Texts : document_map[u] = Some(DocumentOf(x))

\* a did_change with another text than the one the document was opened with
\* has published version 2 after the did_open published version 1
C11_Witness ==
    \E t \in Writers :
       /\ events[t].kind = "did_change"
       /\ hpc[t] = "change_publishing"
       /\ Len(sent) = 2
       /\ sent[1].version = 1 /\ sent[2].version = 2
       /\ sent[1].uri = sent[2].uri
       /\ sent[1].diagnostics # sent[2].diagnostics
       /\ document_map[events[t].uri] = Some(DocumentOf(events[t].text))

\* the handlers blocked in a lock of the document map
Blocked ==
    {t \in Tasks : hpc[t] \in {"open_blocked", "change_blocked",
                               "completion_blocked"}}

\* the handlers that hold the guard of the entry of document u
Mutating(u) ==
    {t \in Writers : /\ events[t].uri = u
                     /\ hpc[t] \in {"changing", "change_publishing"}}

\* C12: at most one handler at a time holds a document's entry for change;
\* the document a completion has read has content, tree and declarations of
\* one text; and a handler blocked on the entry of its document is blocked
\* by a handler of the same document, never by one that holds the entry of
\* another document
C12_Exclusivity ==
    /\ \A u \in Uris : Cardinality(Mutating(u)) <= 1
    /\ \A t \in Tasks :
          (response[t] # None /\ response[t][1].document # None)
          => \E x \in Texts : response[t][1].document = Some(DocumentOf(x))
    /\ \A t \in Blocked :
          /\ guard[shard[events[t].uri]] # 0
          /\ events[guard[shard[events[t].uri]]].uri = events[t].uri

\* the parser has returned no tree to the handler t: from_params of a
\* did_open, or Document::did_change of a did_change that found the document
ParseFailed(t) ==
    /\ ~events[t].parses
    /\ \/ events[t].kind = "did_open" /\ hpc[t] # "new"
       \/ events[t].kind = "did_change" /\ hpc[t] = "panicked"

\* C13: a did_open or did_change whose text the parser returns no tree for
\* returns without a panic, has logged an error, has published no
\* diagnostics and has built no document, and the documents of the map are
\* still each of one text
C13_ParserFailure ==
    \A t \in Writers :
       ParseFailed(t)
       => /\ hpc[t] = "done"
          /\ \E k \in 1..Len(log) : log[k].task = t /\ log[k].type = "ERROR"
          /\ \A k \in 1..Len(sent) :
                ~(sent[k].uri = events[t].uri /\ sent[k].version = Version(t))
          /\ opening[t] = None
          /\ \A u \in Uris :
                (document_map[u] # None /\ Mutating(u) = {})
                => \E x \in Texts : document_map[u] = Some(DocumentOf(x))

\* the recognised kind strings, each with the category named like it
LikeNamed ==
    {<<"stmt_block", "StmtBlock">>, <<"stmt_var_decl", "StmtVarDecl">>,
     <<"stmt_func_decl", "StmtFuncDecl">>, <<"stmt_loop", "StmtLoop">>,
     <<"stmt_while", "StmtWhile">>, <<"stmt_for", "StmtFor">>,
     <<"stmt_continue", "StmtContinue">>, <<"stmt_break", "StmtBreak">>,
     <<"stmt_return", "StmtReturn">>,
     <<"stmt_expression", "StmtExpression">>,
     <<"expr_literal", "ExprLiteral">>, <<"expr_group", "ExprGroup">>,
     <<"expr_identifier", "ExprIdentifier">>,
     <<"expr_array", "ExprArray">>, <<"expr_object", "ExprObject">>,
     <<"expr_unary", "ExprUnary">>, <<"expr_binary", "ExprBinary">>,
     <<"expr_index", "ExprIndex">>, <<"expr_field", "ExprField">>,
     <<"expr_if", "ExprIf">>, <<"expr_match", "ExprMatch">>,
     <<"expr_call", "ExprCall">>, <<"expr_lambda", "ExprLambda">>,
     <<"args", "Args">>, <<"prop", "Prop">>, <<"iterator", "Iterator">>,
     <<"ERROR", "Error">>}

RecognisedKinds == {p[1] : p \in LikeNamed}

\* the nodes eval_node has classified
Classified == {i \in 1..Len(tree) : i < cur}

\* C14: NodeType::from gives every node of a recognised kind the category
\* named like the kind (stmt_expression the expression statement,
\* stmt_return the return), two nodes of different recognised kinds get
\* different categories, and a node of any other kind gets Unnamed
C14_Classifier ==
    \A i \in Classified :
       /\ tree[i].kind \in RecognisedKinds
          => <<tree[i].kind, NodeTypeOf(i)>> \in LikeNamed
       /\ tree[i].kind \notin RecognisedKinds => NodeTypeOf(i) = "Unnamed"
       /\ \A j \in Classified :
             (/\ tree[i].kind \in RecognisedKinds
              /\ tree[j].kind \in RecognisedKinds
              /\ tree[i].kind # tree[j].kind)
             => NodeTypeOf(i) # NodeTypeOf(j)

\* the expression statements of the document
ExprStmts == {i \in 1..Len(tree) : tree[i].kind = "stmt_expression"}

\* the value of expression statement i is dropped: its expression is a
\* literal, an identifier, a unary expression or a binary expression whose
\* operator is not `=`, and i is not the last named child of a block
ResultDropped(i) ==
    LET child == named_child0(i) IN
    /\ child # 0
    /\ \/ tree[child].kind \in {"expr_literal", "expr_identifier", "expr_unary"}
       \/ /\ tree[child].kind = "expr_binary"
          /\ child_by_field_name(child, "operator") # 0
          /\ utf8_text(child_by_field_name(child, "operator")) # "="
    /\ ~(/\ tree[i].parent # 0
         /\ tree[tree[i].parent].kind = "stmt_block"
         /\ LastNamedChild(tree[i].parent) = i)

\* the places of the diagnostics list with an UnusedResult warning at the
\* range of statement i followed by an Assign hint at the same range
UnusedResultAt(i) ==
    {k \in 1..(Len(diagnostics) - 1) :
        /\ diagnostics[k] = warn("UnusedResult", get_node_range(i))
        /\ diagnostics[k + 1] = hint("Assign", "", get_node_range(i))}

\* C15: after the analysis, every expression statement whose value is
\* dropped has exactly one UnusedResult warning followed by one Assign
\* hint, both at the range of the statement, and every other expression
\* statement has neither of the two
C15_UnusedResult ==
    pc = "done" =>
       \A i \in ExprStmts :
          IF ResultDropped(i)
          THEN /\ Cardinality(UnusedResultAt(i)) = 1
               /\ CountDiag(warn("UnusedResult", get_node_range(i))) = 1
               /\ CountDiag(hint("Assign", "", get_node_range(i))) = 1
          ELSE /\ CountDiag(warn("UnusedResult", get_node_range(i))) = 0
               /\ CountDiag(hint("Assign", "", get_node_range(i))) = 0

\* the error a continue, break or return statement gets where it may not be
OutsideError(i) ==
    CASE tree[i].kind = "stmt_continue" ->
           error("ContinueOutside", "", get_node_range(i))
      [] tree[i].kind = "stmt_break" ->
           error("BreakOutside", "", get_node_range(i))
      [] tree[i].kind = "stmt_return" ->
           error("ReturnOutside", "", get_node_range(i))

\* the continue, break and return statements of the document
ControlStmts ==
    {i \in 1..Len(tree) :
        tree[i].kind \in {"stmt_continue", "stmt_break", "stmt_return"}}

OutsideMessages ==
    {"continue outside of a loop", "break outside of a loop",
     "return outside of a function"}

\* C16: after the analysis, a continue or break statement has its
\* ContinueOutside / BreakOutside error exactly when no ancestor is a loop,
\* a return statement has its ReturnOutside error exactly when no ancestor
\* is a function declaration or a lambda, every error of the three kinds
\* is the one of such a statement (none is at an expression statement),
\* and a statement with such an error has no Unreachable hint for what
\* follows it
C16_ControlFlow ==
    pc = "done" =>
       /\ \A i \in ControlStmts :
             IF ValidPlace(i)
             THEN CountDiag(OutsideError(i)) = 0
             ELSE /\ CountDiag(OutsideError(i)) = 1
                  /\ next_named_sibling(i) # 0
                     => \A k \in 1..Len(diagnostics) :
                           ~(/\ diagnostics[k].message = "Unreachable code"
                             /\ diagnostics[k].range.start
                                   = tree[next_named_sibling(i)].start)
       /\ \A k \in 1..Len(diagnostics) :
             diagnostics[k].message \in OutsideMessages
             => \E i \in ControlStmts :
                   ~ValidPlace(i) /\ diagnostics[k] = OutsideError(i)

\* no bucket of the map holds two declarations with equal name and scope,
\* and every declaration is in the bucket of its own name
BucketsUnique(map) ==
    \A n \in DOMAIN map :
       \A j \in 1..Len(map[n]) :
          /\ map[n][j].name = n
          /\ \A k \in 1..Len(map[n]) :
                (j # k) => (map[n][j].scope # map[n][k].scope)

\* the bucket of name n, empty when the map has none
BucketOf(map, n) == IF n \in DOMAIN map THEN map[n] ELSE <<>>

\* map t is map s with declaration d appended to the bucket of its name and
\* nothing else changed
AppendedOne(s, t, d) ==
    /\ DOMAIN t = DOMAIN s \cup {d.name}
    /\ t[d.name] = Append(BucketOf(s, d.name), d)
    /\ \A n \in DOMAIN s \ {d.name} : t[n] = s[n]

\* C17: the builtin-seeded map and every map the inserts of the walk
\* (variables, functions, parameters, `self`, for-loop bindings) lead to
\* have no two declarations of equal name and scope in a bucket and every
\* declaration in the bucket of its name; no insert removes or changes a
\* declaration; the insert of a variable statement whose name and scope
\* are in the map leaves every bucket unchanged, and otherwise appends its
\* one declaration to the one bucket of its name
C17_BucketUniqueness ==
    /\ BucketsUnique(declarations)
    /\ [][(pc = "walk" /\ pc' = "walk" /\ cur <= Len(tree))
          => /\ BucketsUnique(declarations')
             /\ \A n \in DOMAIN declarations :
                   /\ n \in DOMAIN declarations'
                   /\ Len(declarations[n]) <= Len(declarations'[n])
                   /\ SubSeq(declarations'[n], 1, Len(declarations[n]))
                         = declarations[n]
             /\ (tree[cur].kind = "stmt_var_decl" /\ IsDeclStmt(cur))
                => IF Redeclares(cur)
                   THEN declarations' = declarations
                   ELSE \E d \in DeclsOf(declarations') :
                           /\ d.name = DeclName(cur)
                           /\ d.scope = ScopeOf(cur)
                           /\ AppendedOne(declarations, declarations', d)
         ]_vars

\* a bucket holds two declarations of the name x (a variable and a
\* parameter, of different scopes), the `self` of a function is in the map
\* and an insert has been rejected
C17_Witness ==
    /\ pc = "walk"
    /\ "x" \in DOMAIN declarations
    /\ Len(declarations["x"]) >= 2
    /\ "self" \in DOMAIN declarations
    /\ \E k \in 1..Len(diagnostics) :
          diagnostics[k].message = "Redeclaring existing identifier 'x'"

\* declaration d has the innermost scope of the declarations of the bucket
\* that pass the visibility test at position p
InnermostAt(bucket, d, p) ==
    /\ is_declaration_at(d, p)
    /\ \A k \in 1..Len(bucket) :
          (is_declaration_at(bucket[k], p) /\ bucket[k] # d)
          => /\ d.scope # None
             /\ \/ bucket[k].scope = None
                \/ NestedIn(d.scope[1], bucket[k].scope[1])

\* a reference of the document resolves to declaration d of the bucket
ResolvesTo(bucket, d) ==
    \E r \in 1..Len(identifiers) :
       /\ identifiers[r].name = d.name
       /\ InnermostAt(bucket, d, identifiers[r].range.end)

\* C18: resolve_identifiers marks as used, for every reference, the one
\* declaration of the bucket of its name that passes the visibility test
\* at the reference and has the innermost scope (a shadowing declaration
\* of a nested block before the outer one), and changes no other `used`
\* flag and no other field of the table
C18_InnermostWins ==
    [][(pc = "walk" /\ pc' = "unused")
       => /\ DOMAIN declarations' = DOMAIN declarations
          /\ \A n \in DOMAIN declarations :
                /\ Len(declarations'[n]) = Len(declarations[n])
                /\ \A k \in 1..Len(declarations[n]) :
                      declarations'[n][k] =
                         [declarations[n][k] EXCEPT
                            !.used = @ \/ ResolvesTo(declarations[n],
                                                     declarations[n][k])]
      ]_vars

\* C19: under a fair scheduler every completion request eventually returns
\* and every did_change eventually drops the guard of the entry and ends,
\* also when the completion arrives while a did_change of the same
\* document awaits publish_diagnostics with the guard held: no handler
\* waits forever
C19_CompletionLiveness ==
    \A t \in 1..MaxEvents :
       /\ events[t].kind = "completion" => <>(hpc[t] = "done")
       /\ events[t].kind = "did_change"
          => <>(hpc[t] \in {"done", "panicked"}
                /\ guard[shard[events[t].uri]] # t)

====
